---- MODULE Spec2Model ----
(***************************************************************************)
(* A model of app.py, the health-tracker Streamlit script: the data-store  *)
(* adapter over the Google spreadsheet (load_/save_ functions), the        *)
(* aggregation functions, the time-label formatter and the script run      *)
(* that calls them.                                                        *)
(*                                                                         *)
(* Python values are modelled as tuples of strings so that any two of them *)
(* can be compared: a str is the tuple of its characters, None is the one  *)
(* token <<"None">>, an int is <<"#int">> followed by its decimal digits.  *)
(* A dict (ordered, as in Python) is a tuple of <<key, value>> pairs.      *)
(***************************************************************************)
EXTENDS Integers, Sequences, FiniteSets, TLC

VARIABLES
    clock,          \* the system clock, UTC: [day |-> proleptic ordinal, sec |-> second of day]
    sheets,         \* the spreadsheet: worksheet title -> [exists, rows]
    pc,             \* position of the script run
    trigger,        \* the widget that triggered this run: "none" | "button" | "form"
    pee_data,       \* tab1: the list load_pee_data returned
    bp_data,        \* tab2: the list load_bp_data returned
    ret,            \* the outcome of the last data-store function call
    acked,          \* history: per worksheet, the records whose save returned True
    today_count,    \* tab1: get_today_pee_count's result
    today_records,  \* tab1: the records listed under "today"
    labels,         \* tab1: their formatted times
    weekly_data,    \* tab1: get_weekly_pee_data's result
    stats,          \* tab1: [total, avg]; avg is the quotient <<numerator, denominator>>
    reads,          \* the clock at each of the pass's reads (what datetime.now saw)
    prev,           \* the results of the previous pass over the same list
    time_str,       \* format_time_simple's argument
    formatted_time  \* format_time_simple's result

vars == <<clock, sheets, pc, trigger, pee_data, bp_data, ret, acked, today_count,
          today_records, labels, weekly_data, stats, reads, prev, time_str,
          formatted_time>>

-----------------------------------------------------------------------------
(* Bounds of the model. *)

MaxDay == 0         \* the clock runs over FirstDay .. FirstDay + MaxDay (UTC days)
MaxLen == 2         \* the longest record list the aggregation is given
MaxSaves == 2       \* the most records the spreadsheet is given

-----------------------------------------------------------------------------
(* Python values. *)

None == <<"None">>
Unset == <<"unset">>

Digits == <<"0", "1", "2", "3", "4", "5", "6", "7", "8", "9">>

IsDigit(c) == \E i \in 1..10 : Digits[i] = c

DigitVal(c) == (CHOOSE i \in 1..10 : Digits[i] = c) - 1

\* isinstance(v, str)
IsStr(v) == v = <<>> \/ v[1] \notin {"None", "#int", "unset"}

\* f"{n}" of a non-negative int
RECURSIVE Decimal(_)
Decimal(n) == IF n < 10 THEN <<Digits[n + 1]>>
              ELSE Decimal(n \div 10) \o <<Digits[(n % 10) + 1]>>

\* f"{n:02d}" ("%m", "%d", "%H", "%M", "%S" of strftime)
Pad2(n) == IF n < 10 THEN <<"0">> \o Decimal(n) ELSE Decimal(n)

\* "%Y" of strftime (glibc pads no year; years here have four digits)
Pad4(n) == Decimal(n)

PyInt(n) == <<"#int">> \o Decimal(n)

\* dict.get(key, default)
DictHas(d, k) == \E i \in 1..Len(d) : d[i][1] = k

DictGet(d, k, default) ==
    IF DictHas(d, k) THEN d[CHOOSE i \in 1..Len(d) : d[i][1] = k][2] ELSE default

\* d[k] = v : a new key goes to the end, an old key keeps its place
DictSet(d, k, v) ==
    IF DictHas(d, k)
    THEN [i \in 1..Len(d) |-> IF d[i][1] = k THEN <<k, v>> ELSE d[i]]
    ELSE Append(d, <<k, v>>)

K_date == <<"d", "a", "t", "e">>
K_time == <<"t", "i", "m", "e">>
K_datetime == <<"d", "a", "t", "e", "t", "i", "m", "e">>
K_systolic == <<"s", "y", "s", "t", "o", "l", "i", "c">>
K_diastolic == <<"d", "i", "a", "s", "t", "o", "l", "i", "c">>
K_pulse == <<"p", "u", "l", "s", "e">>
K_memo == <<"m", "e", "m", "o">>

-----------------------------------------------------------------------------
(* datetime: the proleptic Gregorian calendar, the fixed zone, strftime. *)

IsLeap(y) == y % 4 = 0 /\ (y % 100 # 0 \/ y % 400 = 0)

DaysInMonth(y, m) ==
    IF m = 2 THEN (IF IsLeap(y) THEN 29 ELSE 28)
    ELSE IF m \in {4, 6, 9, 11} THEN 30 ELSE 31

DaysBeforeYear(y) ==
    (y - 1) * 365 + ((y - 1) \div 4) - ((y - 1) \div 100) + ((y - 1) \div 400)

RECURSIVE DaysBeforeMonth(_, _)
DaysBeforeMonth(y, m) ==
    IF m = 1 THEN 0 ELSE DaysBeforeMonth(y, m - 1) + DaysInMonth(y, m - 1)

\* date(y, m, d).toordinal()
ymd2ord(y, m, d) == DaysBeforeYear(y) + DaysBeforeMonth(y, m) + d

\* date.fromordinal(n) as <<year, month, day>>
ord2ymd(n) ==
    LET y == CHOOSE yy \in (n \div 366)..((n \div 365) + 1) :
                 DaysBeforeYear(yy) < n /\ n <= DaysBeforeYear(yy + 1)
        r == n - DaysBeforeYear(y)
        m == CHOOSE mm \in 1..12 :
                 DaysBeforeMonth(y, mm) < r /\ r <= DaysBeforeMonth(y, mm) + DaysInMonth(y, mm)
    IN  <<y, m, r - DaysBeforeMonth(y, m)>>

\* the zone's offset with its sign wrong: timezone(timedelta(hours=-9))
get_japan_time_west ==
    LET s == clock.sec - 9 * 3600
    IN  [day |-> clock.day + (IF s < 0 THEN -1 ELSE 0), sec |-> s % 86400]

\* JST = timezone(timedelta(hours=9))
JST == 9

\* datetime.now(JST): the UTC clock shifted by the zone's offset
get_japan_time ==
    LET s == clock.sec + JST * 3600
    IN  [day |-> clock.day + (s \div 86400), sec |-> s % 86400]

\* strftime("%Y-%m-%d") of the date with ordinal n
strftime_date(n) ==
    LET ymd == ord2ymd(n)
    IN  Pad4(ymd[1]) \o <<"-">> \o Pad2(ymd[2]) \o <<"-">> \o Pad2(ymd[3])

\* strftime("%H:%M:%S") of second-of-day s
strftime_time(s) ==
    Pad2(s \div 3600) \o <<":">> \o Pad2((s \div 60) % 60) \o <<":">> \o Pad2(s % 60)

-----------------------------------------------------------------------------
(* format_time_simple and the strptime("%H:%M:%S") it calls. *)

CharAt(s, p) == IF p \in 1..Len(s) THEN s[p] ELSE ""

\* The lengths a directive's regular expression matches at position p:
\*   %H  2[0-3]|[0-1]\d|\d      %M  [0-5]\d|\d      %S  6[0-1]|[0-5]\d|\d
FieldLens(s, p, directive) ==
    LET a == CharAt(s, p)
        b == CharAt(s, p + 1)
        two == /\ IsDigit(a) /\ IsDigit(b)
               /\ CASE directive = "H" -> \/ (DigitVal(a) = 2 /\ DigitVal(b) <= 3)
                                          \/ DigitVal(a) <= 1
                    [] directive = "M" -> DigitVal(a) <= 5
                    [] directive = "S" -> \/ (DigitVal(a) = 6 /\ DigitVal(b) <= 1)
                                          \/ DigitVal(a) <= 5
    IN  (IF two THEN {2} ELSE {}) \cup (IF IsDigit(a) THEN {1} ELSE {})

\* int() of the digits s[p .. p+n-1]
FieldVal(s, p, n) ==
    IF n = 1 THEN DigitVal(s[p]) ELSE DigitVal(s[p]) * 10 + DigitVal(s[p + 1])

NoTime == [ok |-> FALSE, hour |-> 0, minute |-> 0, second |-> 0]

\* datetime.strptime(data_string, "%H:%M:%S"); ok = FALSE stands for the exception
\* (TypeError for a non-str, ValueError for no match, for unconverted data and
\* for the second 60 or 61 that the datetime constructor refuses).
strptime(data_string) ==
    IF ~IsStr(data_string) THEN NoTime
    ELSE
    LET s == data_string
        matches == {t \in {1, 2} \X {1, 2} \X {1, 2} :
                       /\ t[1] \in FieldLens(s, 1, "H")
                       /\ CharAt(s, 1 + t[1]) = ":"
                       /\ t[2] \in FieldLens(s, 2 + t[1], "M")
                       /\ CharAt(s, 2 + t[1] + t[2]) = ":"
                       /\ t[3] \in FieldLens(s, 3 + t[1] + t[2], "S")}
    IN  IF matches = {} THEN NoTime
        ELSE
        \* the regex prefers the longer alternative of each field, leftmost first
        LET first == CHOOSE t \in matches : \A u \in matches :
                         \/ t[1] > u[1]
                         \/ (t[1] = u[1] /\ t[2] > u[2])
                         \/ (t[1] = u[1] /\ t[2] = u[2] /\ t[3] >= u[3])
            end == 2 + first[1] + first[2] + first[3]
            second == FieldVal(s, 3 + first[1] + first[2], first[3])
        IN  IF end # Len(s) \/ second > 59 THEN NoTime
            ELSE [ok |-> TRUE,
                  hour |-> FieldVal(s, 1, first[1]),
                  minute |-> FieldVal(s, 2 + first[1], first[2]),
                  second |-> second]

\* the characters U+6642 and U+5206 of the label
Ji == "U+6642"
Fun == "U+5206"

\* the hour padded like the minute
format_time_simple_padded(t_str) ==
    LET time_obj == strptime(t_str)
    IN  IF time_obj.ok
        THEN Pad2(time_obj.hour) \o <<Ji>> \o Pad2(time_obj.minute) \o <<Fun>>
        ELSE t_str

format_time_simple(t_str) ==
    LET time_obj == strptime(t_str)
    IN  IF time_obj.ok
        THEN Decimal(time_obj.hour) \o <<Ji>> \o Pad2(time_obj.minute) \o <<Fun>>
        ELSE t_str

-----------------------------------------------------------------------------
(* The aggregation functions. Each reads the clock itself. *)

\* today taken from datetime.now() without the zone
get_today_pee_count_utc(data) ==
    LET today == strftime_date(clock.day)
    IN  Len(SelectSeq(data, LAMBDA r : DictGet(r, K_date, None) = today))

get_today_pee_count(data) ==
    LET today == strftime_date(get_japan_time.day)
    IN  Len(SelectSeq(data, LAMBDA r : DictGet(r, K_date, None) = today))

\* the window one day early: for i in range(7, 0, -1)
RECURSIVE SeedDays_early(_, _, _)
SeedDays_early(wd, today, i) ==
    IF i < 0 THEN wd
    ELSE SeedDays_early(DictSet(wd, strftime_date(today - i - 1), 0), today, i - 1)

\* for i in range(6, -1, -1): weekly_data[strftime(today - i)] = 0
RECURSIVE SeedDays(_, _, _)
SeedDays(wd, today, i) ==
    IF i < 0 THEN wd
    ELSE SeedDays(DictSet(wd, strftime_date(today - i), 0), today, i - 1)

\* a bucket set to 1 instead of incremented
RECURSIVE CountRecords_once(_, _, _)
CountRecords_once(wd, data, j) ==
    IF j > Len(data) THEN wd
    ELSE LET date == DictGet(data[j], K_date, <<>>)
         IN  CountRecords_once(IF DictHas(wd, date) THEN DictSet(wd, date, 1) ELSE wd,
                               data, j + 1)

\* for record in pee_data[j ..]: count it when its date is a key
RECURSIVE CountRecords(_, _, _)
CountRecords(wd, data, j) ==
    IF j > Len(data) THEN wd
    ELSE LET date == DictGet(data[j], K_date, <<>>)
         IN  CountRecords(IF DictHas(wd, date)
                          THEN DictSet(wd, date, DictGet(wd, date, 0) + 1)
                          ELSE wd,
                          data, j + 1)

get_weekly_pee_data(data) ==
    LET today == get_japan_time.day
    IN  CountRecords(SeedDays(<<>>, today, 6), data, 1)

\* sum(weekly_data.values())
RECURSIVE SumValues(_)
SumValues(wd) == IF wd = <<>> THEN 0 ELSE wd[1][2] + SumValues(Tail(wd))

\* the total divided by the number of days that have a record
daily_average_nonempty(wd) ==
    LET days == Cardinality({i \in 1..Len(wd) : wd[i][2] > 0})
    IN  <<SumValues(wd), IF days = 0 THEN 1 ELSE days>>

\* the quotient total / 7 as <<numerator, denominator>>
daily_average(wd) == <<SumValues(wd), 7>>

-----------------------------------------------------------------------------
(* The clock. *)

\* 2024-02-29: the 7-day windows of the model span a leap day and a month's end
FirstDay == ymd2ord(2024, 2, 29)

\* 00:05:00, 14:59:59 and 15:00:00 UTC: 09:05:00, 23:59:59 and 00:00:00 in the fixed zone
ClockSecs == {300, 53999, 54000}

Clocks == [day : FirstDay..(FirstDay + MaxDay), sec : ClockSecs]

Later(a, b) == a.day > b.day \/ (a.day = b.day /\ a.sec > b.sec)

NoRead == [day |-> 0, sec |-> 0]
NoReads == [count |-> NoRead, list |-> NoRead, weekly |-> NoRead]
NoStats == [total |-> -1, avg |-> <<0, 1>>]
NoPrev == [valid |-> FALSE, pee_data |-> <<>>, today_count |-> -1,
           weekly_data |-> <<>>, reads |-> NoReads]

\* time passes: at any point of a run, and between runs
Tick ==
    /\ \E c \in Clocks : Later(c, clock) /\ clock' = c
    /\ UNCHANGED <<sheets, pc, trigger, pee_data, bp_data, ret, acked, today_count,
                   today_records, labels, weekly_data, stats, reads, prev, time_str,
                   formatted_time>>

-----------------------------------------------------------------------------
(* The tab1 render pass over the loaded list (lines 223-283). *)

\* today_count = get_today_pee_count(pee_data)
Tab1Count ==
    /\ pc = "tab1_count"
    /\ today_count' = get_today_pee_count(pee_data)
    /\ reads' = [reads EXCEPT !.count = clock]
    /\ pc' = "tab1_list"
    /\ UNCHANGED <<clock, sheets, trigger, pee_data, bp_data, ret, acked,
                   today_records, labels, weekly_data, stats, prev, time_str,
                   formatted_time>>

\* today_records = [r for r in pee_data if r.get("date") == today] and its labels
Tab1List ==
    /\ pc = "tab1_list"
    /\ LET today == strftime_date(get_japan_time.day)
           found == SelectSeq(pee_data, LAMBDA r : DictGet(r, K_date, None) = today)
       IN  /\ today_records' = found
           /\ labels' = [i \in 1..Len(found) |->
                            format_time_simple(DictGet(found[i], K_time, <<>>))]
    /\ reads' = [reads EXCEPT !.list = clock]
    /\ pc' = "tab1_weekly"
    /\ UNCHANGED <<clock, sheets, trigger, pee_data, bp_data, ret, acked, today_count,
                   weekly_data, stats, prev, time_str, formatted_time>>

\* weekly_data = get_weekly_pee_data(pee_data)
Tab1Weekly ==
    /\ pc = "tab1_weekly"
    /\ weekly_data' = get_weekly_pee_data(pee_data)
    /\ reads' = [reads EXCEPT !.weekly = clock]
    /\ pc' = "tab1_stats"
    /\ UNCHANGED <<clock, sheets, trigger, pee_data, bp_data, ret, acked, today_count,
                   today_records, labels, stats, prev, time_str, formatted_time>>

\* the two metrics: sum(weekly_data.values()) and that sum / 7
Tab1Stats ==
    /\ pc = "tab1_stats"
    /\ stats' = [total |-> SumValues(weekly_data), avg |-> daily_average(weekly_data)]
    /\ pc' = "tab2_load"
    /\ UNCHANGED <<clock, sheets, trigger, pee_data, bp_data, ret, acked, today_count,
                   today_records, labels, weekly_data, reads, prev, time_str,
                   formatted_time>>

-----------------------------------------------------------------------------
(* The spreadsheet and the data-store functions (lines 57-127).             *)
(* Every call to the spreadsheet service may raise; `fault` is the number   *)
(* of the call, among those one function call makes, that raises (0: none). *)
(* A call that raises has no effect on the spreadsheet.                     *)

Toilet == "toilet"      \* the worksheet of the toilet records
Bp == "bp"              \* the worksheet of the blood-pressure records
Titles == {Toilet, Bp}

PeeHeader == <<K_date, K_time, K_datetime>>
BpHeader == <<K_date, K_time, K_datetime, K_systolic, K_diastolic, K_pulse, K_memo>>
Header(title) == IF title = Toilet THEN PeeHeader ELSE BpHeader

NoSheet == [exists |-> FALSE, rows |-> <<>>]

\* what a cell holds of an appended value: an int as its digits
CellText(v) == IF v # <<>> /\ v[1] = "#int" THEN Tail(v) ELSE v

\* gspread's numericise of a cell on reading: text made of digits is an int
Numericise(c) ==
    IF c # <<>> /\ (\A i \in 1..Len(c) : IsDigit(c[i])) THEN <<"#int">> \o c ELSE c

\* dict(zip(keys, row))
RECURSIVE ZipDict(_, _, _, _)
ZipDict(d, keys, row, i) ==
    IF i > Len(keys) \/ i > Len(row) THEN d
    ELSE ZipDict(DictSet(d, keys[i], Numericise(row[i])), keys, row, i + 1)

\* worksheet.get_all_records(): the first row gives the keys, the others the records
get_all_records(rows) ==
    IF Len(rows) <= 1 THEN <<>>
    ELSE [i \in 1..(Len(rows) - 1) |-> ZipDict(<<>>, rows[1], rows[i + 1], 1)]

\* worksheet.append_row(values)
append_row(sh, title, values) ==
    [sh EXCEPT ![title].rows = Append(@, [i \in 1..Len(values) |-> CellText(values[i])])]

\* spreadsheet.add_worksheet(title=...)
add_worksheet(sh, title) == [sh EXCEPT ![title] = [exists |-> TRUE, rows |-> <<>>]]

Outcome(sh, op, kind, list, ok, failed, row) ==
    [sheets |-> sh,
     ret |-> [op |-> op, kind |-> kind, list |-> list, ok |-> ok,
              failed |-> failed, row |-> row]]

NoRet == Outcome(<<>>, "none", "none", <<>>, FALSE, FALSE, <<>>).ret

\* load_pee_data / load_bp_data: the same code but for the title and the header
load_data(op, title, fault) ==
    IF fault = 1                                \* get_spreadsheet() raises
    THEN Outcome(sheets, op, "return", <<>>, FALSE, TRUE, <<>>)
    ELSE IF fault = 2                           \* worksheet() raises another error
    THEN Outcome(sheets, op, "return", <<>>, FALSE, TRUE, <<>>)
    ELSE IF sheets[title].exists
    THEN IF fault = 3                           \* get_all_records() raises
         THEN Outcome(sheets, op, "return", <<>>, FALSE, TRUE, <<>>)
         ELSE Outcome(sheets, op, "return", get_all_records(sheets[title].rows),
                      FALSE, FALSE, <<>>)
    \* except WorksheetNotFound: nothing catches what this handler raises
    ELSE IF fault = 3                           \* get_spreadsheet() raises
    THEN Outcome(sheets, op, "raise", <<>>, FALSE, TRUE, <<>>)
    ELSE IF fault = 4                           \* add_worksheet() raises
    THEN Outcome(sheets, op, "raise", <<>>, FALSE, TRUE, <<>>)
    ELSE IF fault = 5                           \* append_row(header) raises
    THEN Outcome(add_worksheet(sheets, title), op, "raise", <<>>, FALSE, TRUE, <<>>)
    ELSE Outcome(append_row(add_worksheet(sheets, title), title, Header(title)),
                 op, "return", <<>>, FALSE, FALSE, <<>>)

load_pee_data(fault) == load_data("load_pee_data", Toilet, fault)

load_bp_data(fault) == load_data("load_bp_data", Bp, fault)

\* save_pee_record / save_bp_record: the same code but for the title, the header
\* and the row; every exception ends in the outer except, which returns False
save_record(op, title, row, fault) ==
    IF fault = 1                                \* get_spreadsheet() raises
    THEN Outcome(sheets, op, "return", <<>>, FALSE, TRUE, row)
    ELSE IF fault = 2                           \* worksheet() raises another error
    THEN Outcome(sheets, op, "return", <<>>, FALSE, TRUE, row)
    ELSE IF sheets[title].exists
    THEN IF fault = 3                           \* append_row(record) raises
         THEN Outcome(sheets, op, "return", <<>>, FALSE, TRUE, row)
         ELSE Outcome(append_row(sheets, title, row), op, "return", <<>>,
                      TRUE, FALSE, row)
    \* except WorksheetNotFound, inside the outer try
    ELSE IF fault = 3                           \* add_worksheet() raises
    THEN Outcome(sheets, op, "return", <<>>, FALSE, TRUE, row)
    ELSE IF fault = 4                           \* append_row(header) raises
    THEN Outcome(add_worksheet(sheets, title), op, "return", <<>>, FALSE, TRUE, row)
    ELSE IF fault = 5                           \* append_row(record) raises
    THEN Outcome(append_row(add_worksheet(sheets, title), title, Header(title)),
                 op, "return", <<>>, FALSE, TRUE, row)
    ELSE Outcome(append_row(append_row(add_worksheet(sheets, title), title,
                                       Header(title)), title, row),
                 op, "return", <<>>, TRUE, FALSE, row)

save_pee_record(record, fault) ==
    save_record("save_pee_record", Toilet,
                <<DictGet(record, K_date, None), DictGet(record, K_time, None),
                  DictGet(record, K_datetime, None)>>, fault)

save_bp_record(record, fault) ==
    save_record("save_bp_record", Bp,
                <<DictGet(record, K_date, None), DictGet(record, K_time, None),
                  DictGet(record, K_datetime, None), DictGet(record, K_systolic, None),
                  DictGet(record, K_diastolic, None), DictGet(record, K_pulse, None),
                  DictGet(record, K_memo, None)>>, fault)

Faults == 0..5

-----------------------------------------------------------------------------
(* The render pass over any record list get_all_records can return. *)

Rec(date, time) ==
    << <<K_date, date>>, <<K_time, time>>, <<K_datetime, date \o <<" ">> \o time>> >>

T_1610 == <<"1", "6", ":", "1", "0", ":", "0", "0">>
T_bad == <<"l", "a", "t", "e">>

\* Records dated in and out of the windows, today and not, and records whose date
\* is unpadded, blank (an empty cell) or missing (a sheet whose header row has no
\* "date" column).
RenderRecords ==
    { Rec(strftime_date(FirstDay + k), T_1610) : k \in {-6, 0, 1} }
    \cup { Rec(<<"2", "0", "2", "4", "-", "2", "-", "2", "9">>, T_bad),
           Rec(<<>>, T_1610),
           << <<K_time, T_1610>>, <<K_datetime, T_1610>> >> }

RECURSIVE ListsUpTo(_, _)
ListsUpTo(S, n) ==
    IF n = 0 THEN {<<>>}
    ELSE LET shorter == ListsUpTo(S, n - 1)
         IN  shorter \cup {Append(l, x) : l \in shorter, x \in S}

InitRender ==
    /\ clock \in Clocks
    /\ pee_data \in ListsUpTo(RenderRecords, MaxLen)
    /\ pc = "tab1_count"
    /\ sheets = <<>> /\ trigger = "none" /\ bp_data = <<>> /\ ret = NoRet
    /\ acked = <<>>
    /\ today_count = -1 /\ today_records = <<>> /\ labels = <<>>
    /\ weekly_data = <<>> /\ stats = NoStats /\ reads = NoReads /\ prev = NoPrev
    /\ time_str = Unset /\ formatted_time = Unset

NextRender == Tick \/ Tab1Count \/ Tab1List \/ Tab1Weekly \/ Tab1Stats

SpecRender == InitRender /\ [][NextRender]_vars

-----------------------------------------------------------------------------
(* The script: one run per user interaction (lines 206-385). *)

\* pee_data = load_pee_data(); an exception that escapes it ends the run
Tab1Load ==
    /\ pc = "tab1_load"
    /\ \E fault \in Faults :
          LET out == load_pee_data(fault)
          IN  /\ sheets' = out.sheets
              /\ ret' = out.ret
              /\ IF out.ret.kind = "raise"
                 THEN pc' = "crashed" /\ pee_data' = <<>>
                 ELSE pc' = "tab1_button" /\ pee_data' = out.ret.list
    /\ today_count' = -1 /\ today_records' = <<>> /\ labels' = <<>>
    /\ weekly_data' = <<>> /\ stats' = NoStats /\ reads' = NoReads
    /\ UNCHANGED <<clock, trigger, bp_data, acked, prev, time_str, formatted_time>>

\* if st.button(...): build the record from the clock, save it, rerun on success
Tab1Button ==
    /\ pc = "tab1_button"
    /\ IF trigger = "button"
       THEN \E fault \in Faults :
               LET now == get_japan_time
                   new_record ==
                       << <<K_date, strftime_date(now.day)>>,
                          <<K_time, strftime_time(now.sec)>>,
                          <<K_datetime, strftime_date(now.day) \o <<" ">>
                                            \o strftime_time(now.sec)>> >>
                   out == save_pee_record(new_record, fault)
               IN  /\ sheets' = out.sheets
                   /\ ret' = out.ret
                   /\ IF out.ret.ok
                      THEN /\ acked' = [acked EXCEPT ![Toilet] = Append(@, out.ret.row)]
                           /\ pc' = "tab1_load"         \* st.rerun()
                           /\ trigger' = "none"
                      ELSE /\ pc' = "tab1_count"
                           /\ UNCHANGED <<acked, trigger>>
       ELSE /\ pc' = "tab1_count"
            /\ UNCHANGED <<sheets, ret, acked, trigger>>
    /\ UNCHANGED <<clock, pee_data, bp_data, today_count, today_records, labels,
                   weekly_data, stats, reads, prev, time_str, formatted_time>>

\* bp_data = load_bp_data()
Tab2Load ==
    /\ pc = "tab2_load"
    /\ \E fault \in Faults :
          LET out == load_bp_data(fault)
          IN  /\ sheets' = out.sheets
              /\ ret' = out.ret
              /\ IF out.ret.kind = "raise"
                 THEN pc' = "crashed" /\ bp_data' = <<>>
                 ELSE pc' = "tab2_form" /\ bp_data' = out.ret.list
    /\ UNCHANGED <<clock, trigger, pee_data, acked, today_count, today_records,
                   labels, weekly_data, stats, reads, prev, time_str, formatted_time>>

\* the values the form's widgets can hold (number_input: ints; text_input: a str)
Systolics == {PyInt(120)}
Diastolics == {PyInt(80)}
Pulses == {PyInt(70)}
Memos == {<<>>, <<"7">>}

\* if submitted: build the record from the clock and the form, save it, rerun on
\* success; the rest of the tab only displays bp_data
Tab2Form ==
    /\ pc = "tab2_form"
    /\ IF trigger = "form"
       THEN \E fault \in Faults, systolic \in Systolics, diastolic \in Diastolics,
               pulse \in Pulses, memo \in Memos :
               LET now == get_japan_time
                   new_record ==
                       << <<K_date, strftime_date(now.day)>>,
                          <<K_time, strftime_time(now.sec)>>,
                          <<K_datetime, strftime_date(now.day) \o <<" ">>
                                            \o strftime_time(now.sec)>>,
                          <<K_systolic, systolic>>, <<K_diastolic, diastolic>>,
                          <<K_pulse, pulse>>, <<K_memo, memo>> >>
                   out == save_bp_record(new_record, fault)
               IN  /\ sheets' = out.sheets
                   /\ ret' = out.ret
                   /\ IF out.ret.ok
                      THEN /\ acked' = [acked EXCEPT ![Bp] = Append(@, out.ret.row)]
                           /\ pc' = "tab1_load"         \* st.rerun()
                           /\ trigger' = "none"
                      ELSE /\ pc' = "idle"
                           /\ UNCHANGED <<acked, trigger>>
       ELSE /\ pc' = "idle"
            /\ UNCHANGED <<sheets, ret, acked, trigger>>
    /\ UNCHANGED <<clock, pee_data, bp_data, today_count, today_records, labels,
                   weekly_data, stats, reads, prev, time_str, formatted_time>>

\* the user opens or reloads the page, presses the button or submits the form
StartRun ==
    /\ pc \in {"idle", "crashed"}
    /\ \E t \in {"none", "button", "form"} :
          /\ t # "none" => Len(acked[Toilet]) + Len(acked[Bp]) < MaxSaves
          /\ trigger' = t
    /\ pc' = "tab1_load"
    /\ UNCHANGED <<clock, sheets, pee_data, bp_data, ret, acked, today_count,
                   today_records, labels, weekly_data, stats, reads, prev, time_str,
                   formatted_time>>

\* a new spreadsheet, before the page is first opened
Init ==
    /\ clock \in Clocks
    /\ sheets = [t \in Titles |-> NoSheet]
    /\ acked = [t \in Titles |-> <<>>]
    /\ pc = "tab1_load" /\ trigger = "none"
    /\ pee_data = <<>> /\ bp_data = <<>> /\ ret = NoRet
    /\ today_count = -1 /\ today_records = <<>> /\ labels = <<>>
    /\ weekly_data = <<>> /\ stats = NoStats /\ reads = NoReads /\ prev = NoPrev
    /\ time_str = Unset /\ formatted_time = Unset

Next ==
    \/ Tick
    \/ StartRun
    \/ Tab1Load \/ Tab1Button
    \/ Tab1Count \/ Tab1List \/ Tab1Weekly \/ Tab1Stats
    \/ Tab2Load \/ Tab2Form

Spec == Init /\ [][Next]_vars

-----------------------------------------------------------------------------
(* Two passes over the same list: the run ends and the next run's load      *)
(* returns the list the sheet still holds.                                  *)

TwiceRecords == { Rec(strftime_date(FirstDay + k), T_1610) : k \in {-6, 0, 1} }

Rerun ==
    /\ pc = "tab2_load"
    /\ ~prev.valid
    /\ prev' = [valid |-> TRUE, pee_data |-> pee_data, today_count |-> today_count,
                weekly_data |-> weekly_data, reads |-> reads]
    /\ today_count' = -1 /\ today_records' = <<>> /\ labels' = <<>>
    /\ weekly_data' = <<>> /\ stats' = NoStats /\ reads' = NoReads
    /\ pc' = "tab1_count"
    /\ UNCHANGED <<clock, sheets, trigger, pee_data, bp_data, ret, acked, time_str,
                   formatted_time>>

InitTwice ==
    /\ clock \in Clocks
    /\ pee_data \in ListsUpTo(TwiceRecords, MaxLen)
    /\ pc = "tab1_count"
    /\ sheets = <<>> /\ trigger = "none" /\ bp_data = <<>> /\ ret = NoRet
    /\ acked = <<>>
    /\ today_count = -1 /\ today_records = <<>> /\ labels = <<>>
    /\ weekly_data = <<>> /\ stats = NoStats /\ reads = NoReads /\ prev = NoPrev
    /\ time_str = Unset /\ formatted_time = Unset

NextTwice == Tick \/ Tab1Count \/ Tab1List \/ Tab1Weekly \/ Tab1Stats \/ Rerun

SpecTwice == InitTwice /\ [][NextTwice]_vars

-----------------------------------------------------------------------------
(* format_time_simple on the values a "time" cell can hold. *)

HourTexts == {<<"0">>, <<"9">>, <<"0", "9">>, <<"1", "6">>, <<"2", "3">>, <<"2", "4">>,
              <<"1", "2", "3">>, <<>>}
MinuteTexts == {<<"5">>, <<"0", "5">>, <<"5", "9">>, <<"6", "0">>, <<"x">>}
SecondTexts == {<<"0">>, <<"0", "0">>, <<"5", "9">>, <<"6", "0">>, <<"6", "1">>,
                <<"0", "0", "0">>, <<"0", " ">>}
Separators == {<<":">>, <<"-">>}

TimeInputs ==
    { h \o a \o m \o b \o sec :
        h \in HourTexts, a \in Separators, m \in MinuteTexts, b \in Separators,
        sec \in SecondTexts }
    \cup { <<>>, T_bad, <<"1", "6", ":", "1", "0">>, None, PyInt(1610) }

CallFormat ==
    /\ formatted_time = Unset
    /\ formatted_time' = format_time_simple(time_str)
    /\ UNCHANGED <<clock, sheets, pc, trigger, pee_data, bp_data, ret, acked,
                   today_count, today_records, labels, weekly_data, stats, reads,
                   prev, time_str>>

InitFormat ==
    /\ time_str \in TimeInputs
    /\ formatted_time = Unset
    /\ clock = [day |-> FirstDay, sec |-> 0]
    /\ pc = "format"
    /\ pee_data = <<>>
    /\ sheets = <<>> /\ trigger = "none" /\ bp_data = <<>> /\ ret = NoRet
    /\ acked = <<>>
    /\ today_count = -1 /\ today_records = <<>> /\ labels = <<>>
    /\ weekly_data = <<>> /\ stats = NoStats /\ reads = NoReads /\ prev = NoPrev

NextFormat == CallFormat

SpecFormat == InitFormat /\ [][NextFormat]_vars

-----------------------------------------------------------------------------
(* What the properties below are stated with. *)

\* the calendar day, in the zone nine hours ahead of UTC, of a clock reading
JstDay(c) == IF c.sec >= 15 * 3600 THEN c.day + 1 ELSE c.day

\* k reads "YYYY-MM-DD"
IsDateStr(k) ==
    /\ Len(k) = 10
    /\ k[5] = "-" /\ k[8] = "-"
    /\ \A i \in {1, 2, 3, 4, 6, 7, 9, 10} : IsDigit(k[i])

DateOf(k) ==
    << DigitVal(k[1]) * 1000 + DigitVal(k[2]) * 100 + DigitVal(k[3]) * 10 + DigitVal(k[4]),
       DigitVal(k[6]) * 10 + DigitVal(k[7]),
       DigitVal(k[9]) * 10 + DigitVal(k[10]) >>

IsCalendarDate(k) ==
    /\ IsDateStr(k)
    /\ DateOf(k)[2] \in 1..12
    /\ DateOf(k)[3] \in 1..DaysInMonth(DateOf(k)[1], DateOf(k)[2])

\* b is the calendar day after a
IsNextDay(a, b) ==
    \/ a[1] = b[1] /\ a[2] = b[2] /\ b[3] = a[3] + 1
    \/ /\ a[3] = DaysInMonth(a[1], a[2])
       /\ b[3] = 1
       /\ \/ a[2] < 12 /\ b[2] = a[2] + 1 /\ b[1] = a[1]
          \/ a[2] = 12 /\ b[2] = 1 /\ b[1] = a[1] + 1

\* the records of the loaded list that have a date field
Dated == {j \in 1..Len(pee_data) : DictHas(pee_data[j], K_date)}

DateField(j) == DictGet(pee_data[j], K_date, None)

\* the records whose date is the calendar day numbered n
DatedOn(n) ==
    {j \in Dated : IsCalendarDate(DateField(j))
                   /\ ymd2ord(DateOf(DateField(j))[1], DateOf(DateField(j))[2],
                              DateOf(DateField(j))[3]) = n}

CountDone == pc \in {"tab1_list", "tab1_weekly", "tab1_stats", "tab2_load"}
WeeklyDone == pc \in {"tab1_stats", "tab2_load"}
PassDone == pc = "tab2_load"

BucketSum ==
    weekly_data[1][2] + weekly_data[2][2] + weekly_data[3][2] + weekly_data[4][2]
        + weekly_data[5][2] + weekly_data[6][2] + weekly_data[7][2]

-----------------------------------------------------------------------------
(* The aggregation claims, under SpecRender. *)

\* C1: whatever the list and the date, get_weekly_pee_data returns exactly 7
\* buckets, keyed oldest first by the consecutive calendar dates that end on the
\* day the clock shows in the UTC+9 zone when the function is called.
C1_SevenConsecutiveDays ==
    WeeklyDone =>
        /\ Len(weekly_data) = 7
        /\ \A i \in 1..7 : IsCalendarDate(weekly_data[i][1])
        /\ \A i \in 1..6 : IsNextDay(DateOf(weekly_data[i][1]), DateOf(weekly_data[i + 1][1]))
        /\ ymd2ord(DateOf(weekly_data[7][1])[1], DateOf(weekly_data[7][1])[2],
                   DateOf(weekly_data[7][1])[3]) = JstDay(reads.weekly)

\* C1's case: a non-empty list with no record in the window, on the first of
\* March of a leap year, so that the window spans the month's end
C1_Witness ==
    /\ PassDone
    /\ pee_data # <<>>
    /\ stats.total = 0
    /\ weekly_data[1][1] = <<"2", "0", "2", "4", "-", "0", "2", "-", "2", "4">>
    /\ weekly_data[6][1] = <<"2", "0", "2", "4", "-", "0", "2", "-", "2", "9">>
    /\ weekly_data[7][1] = <<"2", "0", "2", "4", "-", "0", "3", "-", "0", "1">>

\* C2: each bucket holds the number of records whose date field is the bucket's
\* key, and the buckets sum to the number of records dated within the 7 days
\* that end on the day of the call; a record with another date, an empty date or
\* no date field adds nothing.
C2_BucketCounts ==
    WeeklyDone =>
        /\ \A i \in 1..Len(weekly_data) :
              weekly_data[i][2] =
                  Cardinality({j \in Dated : DateField(j) = weekly_data[i][1]})
        /\ Len(weekly_data) = 7
        /\ BucketSum =
              Cardinality(UNION {DatedOn(n) :
                                   n \in (JstDay(reads.weekly) - 6)..JstDay(reads.weekly)})

\* C2's case: a record with no date field followed by a record in the window
C2_Witness ==
    /\ PassDone
    /\ Len(pee_data) = 2
    /\ ~DictHas(pee_data[1], K_date)
    /\ BucketSum = 1

\* C3: get_today_pee_count returns the number of records whose date field is the
\* YYYY-MM-DD string of the day the clock shows in the UTC+9 zone at the call.
C3_TodayCount ==
    CountDone => today_count = Cardinality(DatedOn(JstDay(reads.count)))

\* C3's case: the call made when the zone's day is already the next UTC day, over
\* a list with one record of that day and one of another
C3_Witness ==
    /\ pc = "tab1_list"
    /\ reads.count.sec = 54000
    /\ Len(pee_data) = 2
    /\ today_count = 1

\* C5: the total shown is the sum of the 7 bucket counts and the average is that
\* total divided by 7, also when fewer than 7 days have a record.
C5_TotalAndAverage ==
    PassDone =>
        /\ Len(weekly_data) = 7
        /\ stats.total = BucketSum
        /\ stats.avg[2] # 0
        /\ stats.avg[1] * 7 = stats.total * stats.avg[2]

\* C5's case: two records, both on one day of the window
C5_Witness ==
    /\ PassDone
    /\ stats.total = 2
    /\ Cardinality({i \in 1..7 : weekly_data[i][2] > 0}) = 1

\* C10: at the end of a pass the today-count, the length of the today list and
\* the count of the newest bucket are equal.
C10_ViewsAgree ==
    PassDone =>
        /\ today_count = Len(today_records)
        /\ today_count = weekly_data[7][2]

-----------------------------------------------------------------------------
(* The clock claim, under SpecTwice. *)

-----------------------------------------------------------------------------
(* The formatter claim, under SpecFormat. *)

Colons(s) == {i \in 1..Len(s) : s[i] = ":"}

\* text is the number n in 0..max written with or without a leading zero
Writes(text, max) == \E n \in 0..max : text = Decimal(n) \/ text = Pad2(n)

NumberOf(text, max) == CHOOSE n \in 0..max : text = Decimal(n) \/ text = Pad2(n)

Field(s, k) ==
    LET i == CHOOSE x \in Colons(s) : \A y \in Colons(s) : x <= y
        j == CHOOSE x \in Colons(s) : \A y \in Colons(s) : x >= y
    IN  CASE k = 1 -> SubSeq(s, 1, i - 1)
          [] k = 2 -> SubSeq(s, i + 1, j - 1)
          [] k = 3 -> SubSeq(s, j + 1, Len(s))

\* s is hour:minute:second of a time of day
IsTimeOfDay(s) ==
    /\ IsStr(s)
    /\ Cardinality(Colons(s)) = 2
    /\ Writes(Field(s, 1), 23) /\ Writes(Field(s, 2), 59) /\ Writes(Field(s, 3), 59)

\* C4: format_time_simple returns the hour unpadded, U+6642, the minute on two
\* digits, U+5206 when its argument is a time of day, and its argument otherwise.
C4_FormatLabel ==
    formatted_time # Unset =>
        IF IsTimeOfDay(time_str)
        THEN formatted_time =
                 Decimal(NumberOf(Field(time_str, 1), 23)) \o <<"U+6642">>
                     \o Pad2(NumberOf(Field(time_str, 2), 59)) \o <<"U+5206">>
        ELSE formatted_time = time_str

\* C4's case: a padded hour loses its zero, an unpadded minute gains one
C4_Witness ==
    /\ time_str = <<"0", "9", ":", "5", ":", "0", "0">>
    /\ formatted_time = <<"9", "U+6642", "0", "5", "U+5206">>

-----------------------------------------------------------------------------
(* The data-store claims, under Spec. *)

DataRows(sh, title) == IF sh[title].rows = <<>> THEN <<>> ELSE Tail(sh[title].rows)

IsPrefix(a, b) == Len(a) <= Len(b) /\ SubSeq(b, 1, Len(a)) = a

\* the records a load returns of the rows given, in order, to append_row
ReadBack(title, given) ==
    [i \in 1..Len(given) |->
        ZipDict(<<>>, Header(title),
                [k \in 1..Len(given[i]) |-> CellText(given[i][k])], 1)]

\* C6: every step leaves each worksheet's data rows a prefix of what they become,
\* a save that returns True adds its record as one data row at the end, and a
\* load that meets no failure returns the saved records, oldest first.
C6_AppendOnly ==
    [][ /\ \A t \in Titles : IsPrefix(DataRows(sheets, t), DataRows(sheets', t))
        /\ (pc = "tab1_button" /\ pc' # pc /\ ret'.ok) =>
               DataRows(sheets', Toilet) =
                   Append(DataRows(sheets, Toilet),
                          [k \in 1..Len(ret'.row) |-> CellText(ret'.row[k])])
        /\ (pc = "tab2_form" /\ pc' # pc /\ ret'.ok) =>
               DataRows(sheets', Bp) =
                   Append(DataRows(sheets, Bp),
                          [k \in 1..Len(ret'.row) |-> CellText(ret'.row[k])])
        /\ (pc = "tab1_load" /\ pc' = "tab1_button" /\ ~ret'.failed) =>
               pee_data' = ReadBack(Toilet, acked[Toilet])
        /\ (pc = "tab2_load" /\ pc' = "tab2_form" /\ ~ret'.failed) =>
               bp_data' = ReadBack(Bp, acked[Bp])
      ]_vars

\* C7: a worksheet that exists has its header as first row, once.
C7_HeaderFirst ==
    \A t \in Titles :
        sheets[t].exists =>
            /\ Len(sheets[t].rows) >= 1
            /\ sheets[t].rows[1] = Header(t)
            /\ \A i \in 2..Len(sheets[t].rows) : sheets[t].rows[i] # Header(t)

\* C8: no data-store function lets an exception escape; a load that met a
\* failure returned the empty list, a save that met one returned False, and a
\* save that returned True appended its row.
C8_FailuresCaught ==
    /\ ret.kind # "raise"
    /\ (ret.op \in {"load_pee_data", "load_bp_data"} /\ ret.failed) => ret.list = <<>>
    /\ (ret.op \in {"save_pee_record", "save_bp_record"} /\ ret.failed) => ~ret.ok
    /\ ret.ok =>
          LET title == IF ret.op = "save_pee_record" THEN Toilet ELSE Bp
              rows == sheets[title].rows
          IN  /\ rows # <<>>
              /\ rows[Len(rows)] = [k \in 1..Len(ret.row) |-> CellText(ret.row[k])]

====
